---- MODULE Spec2Model ----
(***************************************************************************)
(* Model of omni_cam's OCam (src/src/ocam.cpp): the parameter loader       *)
(* OCam::loadOCam reading a whitespace separated text file through a       *)
(* std::ifstream, the constructor, and the const operations backProject3,  *)
(* project3, print, getIntrinsicParameters and getDistortionParameters     *)
(* called from several threads on the loaded camera.                       *)
(*                                                                         *)
(* A double is the pair <<n, d>> of an exact fraction n/d in lowest terms, *)
(* d > 0; d = 0 encodes the IEEE specials: <<1,0>> is +inf, <<-1,0>> is    *)
(* -inf and <<0,0>> is NaN.  std::sqrt is exact where the root is a        *)
(* fraction and rounded down to a multiple of 1/2 elsewhere; std::atan is  *)
(* rounded to the nearest whole number.                                    *)
(***************************************************************************)
EXTENDS Integers, Sequences, FiniteSets

VARIABLES
  file,        \* the characters of the parameter file
  can_open,    \* whether std::ifstream can open it
  shape,       \* how the file was written: parameters, tokens kept, bad token, ending
  eigen_guarded, \* whether the build's Eigen guards normalize() against a zero norm
  pc,          \* position of loadOCam
  stream,      \* param_fs: read position, eofbit, failbit
  locals,      \* loadOCam's five local vectors
  log,         \* glog output: LOG(ERROR) and CHECK failures
  result,      \* what loadOCam returned: "none" (not yet), "null" or "ptr"
  ocam,        \* the fields of the constructed OCam
  tpc,         \* per thread: position inside the operation it is running
  targ,        \* per thread: arguments of the running operation
  tloc,        \* per thread: locals of the running operation
  tout         \* per thread: out parameters and return value of the operation

vars == <<file, can_open, shape, eigen_guarded, pc, stream, locals, log, result, ocam,
          tpc, targ, tloc, tout>>

loadVars == <<pc, stream, locals, log, result, ocam>>
threadVars == <<tpc, targ, tloc, tout>>
fileVars == <<file, can_open, shape, eigen_guarded>>

----------------------------------------------------------------------------
(* Bounds of the model. *)

\* Largest |z| of the 3D points handed to project3.
MaxDepth == 3
\* Largest pixel offset of the keypoints handed to backProject3.
MaxPixel == 1

(* Program constants. *)
kInversePolynomialOrder == 12
kPolynomialSize == 5

----------------------------------------------------------------------------
(* double arithmetic *)

Abs(n) == IF n < 0 THEN -n ELSE n
Sgn(n) == IF n > 0 THEN 1 ELSE IF n < 0 THEN -1 ELSE 0
Max(a, b) == IF a >= b THEN a ELSE b

RECURSIVE Gcd(_, _)
Gcd(a, b) == IF b = 0 THEN a ELSE Gcd(b, a % b)

\* The double n/d in lowest terms; a zero denominator is an IEEE special.
Frac(n, d) ==
  IF d = 0 THEN <<Sgn(n), 0>>
  ELSE LET g == Gcd(Abs(n), Abs(d))
           s == IF d < 0 THEN -1 ELSE 1
       IN <<s * (n \div g), s * (d \div g)>>

Zero == <<0, 1>>
One == <<1, 1>>
NaN == <<0, 0>>
PosInf == <<1, 0>>
FromInt(n) == <<n, 1>>
IsFinite(a) == a[2] # 0

RNeg(a) == <<-a[1], a[2]>>

RMul(a, b) ==
  IF a[2] = 0 \/ b[2] = 0 THEN Frac(a[1] * b[1], 0)
  ELSE LET g1 == Max(1, Gcd(Abs(a[1]), b[2]))
           g2 == Max(1, Gcd(Abs(b[1]), a[2]))
       IN Frac((a[1] \div g1) * (b[1] \div g2), (a[2] \div g2) * (b[2] \div g1))

\* 1/a; 1/0 is +inf (the model has no negative zero), 1/inf is 0.
RInv(a) == Frac(a[2], a[1])

RDiv(a, b) == RMul(a, RInv(b))

RAdd(a, b) ==
  IF a[2] = 0 /\ b[2] = 0 THEN (IF a = b THEN a ELSE NaN)
  ELSE IF a[2] = 0 THEN a
  ELSE IF b[2] = 0 THEN b
  ELSE LET g == Gcd(a[2], b[2])
       IN Frac(a[1] * (b[2] \div g) + b[1] * (a[2] \div g), a[2] * (b[2] \div g))

RSub(a, b) == RAdd(a, RNeg(b))

RLess(a, b) == a[1] * b[2] < b[1] * a[2]

\* Largest r with r * r <= n, by bisection between lo (lo * lo <= n) and
\* hi (hi * hi > n).
RECURSIVE ISqrtBetween(_, _, _)
ISqrtBetween(n, lo, hi) ==
  IF hi - lo <= 1 THEN lo
  ELSE LET mid == (lo + hi) \div 2
       IN IF mid * mid <= n THEN ISqrtBetween(n, mid, hi)
          ELSE ISqrtBetween(n, lo, mid)
ISqrt(n) == ISqrtBetween(n, 0, IF n < 46340 THEN n + 1 ELSE 46341)
IsSquare(n) == ISqrt(n) * ISqrt(n) = n

\* The whole part of 4 * a, for a fraction a >= 0.
Floor4(a) == 4 * (a[1] \div a[2]) + (4 * (a[1] % a[2])) \div a[2]

\* std::sqrt: NaN for NaN and negatives, +inf for +inf, the exact root of a
\* fraction of squares, otherwise the root rounded down to a multiple of 1/2.
Sqrt(a) ==
  IF a[2] = 0 THEN (IF a = PosInf THEN PosInf ELSE NaN)
  ELSE IF a[1] < 0 THEN NaN
  ELSE IF IsSquare(a[1]) /\ IsSquare(a[2]) THEN Frac(ISqrt(a[1]), ISqrt(a[2]))
  ELSE Frac(ISqrt(Floor4(a)), 2)

\* std::pow(a, 2)
Sqr(a) == RMul(a, a)

\* tan(1/2) and tan(3/2) to four decimals: the arguments at which atan,
\* rounded to a whole number, steps from 0 to 1 and from 1 to 2.
TanSteps == << <<5463, 10000>>, <<141014, 10000>> >>

\* Number of steps of tan at or below the non-negative fraction a.
AtanSteps(a) == Cardinality({k \in 1..Len(TanSteps) : ~RLess(a, TanSteps[k])})

\* std::atan rounded to the nearest whole number; atan(+-inf) is +-pi/2,
\* which rounds to +-2.
Atan(a) ==
  IF a = NaN THEN NaN
  ELSE IF a[2] = 0 THEN FromInt(a[1] * 2)
  ELSE IF a[1] < 0 THEN FromInt(-AtanSteps(RNeg(a)))
  ELSE FromInt(AtanSteps(a))

----------------------------------------------------------------------------
(* The parameter file: characters, and the tokens written into it. *)

DigitChars == <<"0", "1", "2", "3", "4", "5", "6", "7", "8", "9">>
Whitespace == {" ", "\n"}
IsDigit(c) == \E i \in 1..10 : DigitChars[i] = c
DigitVal(c) == (CHOOSE i \in 1..10 : DigitChars[i] = c) - 1

RECURSIVE Pow10(_)
Pow10(k) == IF k = 0 THEN 1 ELSE 10 * Pow10(k - 1)

\* Decimal digits of m >= 0, at least `width` of them (zero padded).
RECURSIVE DigitsOf(_, _)
DigitsOf(m, width) ==
  IF m < 10 /\ width <= 1 THEN <<DigitChars[m + 1]>>
  ELSE Append(DigitsOf(m \div 10, width - 1), DigitChars[(m % 10) + 1])

\* The token for n / 10^k written with k decimals ("-100.0" is <<-1000, 1>>).
FormatToken(t) ==
  LET n == t[1]
      k == t[2]
      sign == IF n < 0 THEN <<"-">> ELSE <<>>
      ip == DigitsOf(Abs(n) \div Pow10(k), 1)
      fp == IF k = 0 THEN <<>> ELSE <<".">> \o DigitsOf(Abs(n) % Pow10(k), k)
  IN sign \o ip \o fp

TokenValue(t) == Frac(t[1], Pow10(t[2]))

\* The parameter sets written to files: 24 tokens in file order, image size
\* (2), polynomial (5), principal point (2), distortion (3), inverse
\* polynomial (12).
ParamSets == <<
  \* the sample file of the format description, with 0.5 where it has 0.001
  << <<640, 0>>, <<480, 0>>,
     <<-1000, 1>>, <<0, 1>>, <<5, 1>>, <<0, 1>>, <<0, 1>>,
     <<3200, 1>>, <<2400, 1>>,
     <<10, 1>>, <<0, 1>>, <<0, 1>>,
     <<0, 1>>, <<10, 1>>, <<0, 1>>, <<0, 1>>, <<0, 1>>, <<0, 1>>,
     <<0, 1>>, <<0, 1>>, <<0, 1>>, <<0, 1>>, <<0, 1>>, <<0, 1>> >>,
  \* every token different from its neighbours, a skewed affine correction
  << <<8, 0>>, <<6, 0>>,
     <<5, 0>>, <<-4, 0>>, <<3, 0>>, <<-2, 0>>, <<1, 0>>,
     <<3205, 1>>, <<2405, 1>>,
     <<30, 1>>, <<10, 1>>, <<20, 1>>,
     <<1, 0>>, <<2, 0>>, <<3, 0>>, <<4, 0>>, <<5, 0>>, <<6, 0>>,
     <<7, 0>>, <<8, 0>>, <<9, 0>>, <<10, 0>>, <<11, 0>>, <<12, 0>> >>,
  \* a lens whose polynomial and inverse polynomial agree on the cone
  \* z = 0.75 * sqrt(x^2 + y^2)
  << <<4, 0>>, <<3, 0>>,
     <<0, 1>>, <<-75, 2>>, <<0, 1>>, <<0, 1>>, <<0, 1>>,
     <<3200, 1>>, <<2400, 1>>,
     <<20, 1>>, <<5, 1>>, <<30, 1>>,
     <<20, 1>>, <<-20, 1>>, <<0, 1>>, <<0, 1>>, <<0, 1>>, <<0, 1>>,
     <<0, 1>>, <<0, 1>>, <<0, 1>>, <<0, 1>>, <<0, 1>>, <<0, 1>> >>,
  \* a singular affine correction: d0 = d1 * d2
  << <<4, 0>>, <<3, 0>>,
     <<1, 3>>, <<0, 1>>, <<5, 1>>, <<0, 1>>, <<0, 1>>,
     <<3200, 1>>, <<2400, 1>>,
     <<15, 1>>, <<5, 1>>, <<30, 1>>,
     <<10, 1>>, <<10, 1>>, <<0, 1>>, <<0, 1>>, <<0, 1>>, <<0, 1>>,
     <<0, 1>>, <<0, 1>>, <<0, 1>>, <<0, 1>>, <<0, 1>>, <<0, 1>> >>
>>

NumTokens == 2 + kPolynomialSize + 2 + 3 + kInversePolynomialOrder

\* Index (1..5) of the group the i-th token belongs to.
GroupOf(i) ==
  IF i <= 2 THEN 1
  ELSE IF i <= 2 + kPolynomialSize THEN 2
  ELSE IF i <= 4 + kPolynomialSize THEN 3
  ELSE IF i <= 7 + kPolynomialSize THEN 4
  ELSE 5

\* What stands in a file where a number should: no number at all, or a
\* number with a letter glued to it.
BadTokens == [none |-> <<"#">>, glued |-> <<"7", "#">>]
Endings == [nothing |-> <<>>, space |-> <<" ">>, newline |-> <<"\n">>]

\* How a file is written: which parameters, how many tokens are kept
\* (fewer than 24: truncated), which token is replaced by a bad one (0: none)
\* and what follows the last token.
Shapes ==
  { [params |-> p, kept |-> n, bad |-> b, badkind |-> bk, ending |-> e] :
      p \in 1..Len(ParamSets), n \in 0..NumTokens, b \in 0..NumTokens,
      bk \in DOMAIN BadTokens, e \in DOMAIN Endings }

\* Truncated and corrupted files are written from the sample parameters.
ValidShape(sh) ==
  /\ sh.bad # 0 => sh.kept = NumTokens
  /\ sh.bad = 0 => sh.badkind = "none"
  /\ (sh.bad # 0 \/ sh.kept < NumTokens) => sh.params = 1

\* One line per group, tokens of a group separated by a space.
RECURSIVE WriteTokens(_, _)
WriteTokens(sh, i) ==
  IF i > sh.kept THEN <<>>
  ELSE LET tok == IF i = sh.bad THEN BadTokens[sh.badkind]
                  ELSE FormatToken(ParamSets[sh.params][i])
           sep == IF i = sh.kept THEN Endings[sh.ending]
                  ELSE IF GroupOf(i + 1) # GroupOf(i) THEN <<"\n">>
                  ELSE <<" ">>
       IN tok \o sep \o WriteTokens(sh, i + 1)

WriteFile(sh) == WriteTokens(sh, 1)

\* The file holds exactly the 24 well-formed tokens.
WellFormed(sh) == sh.kept = NumTokens /\ sh.bad = 0

----------------------------------------------------------------------------
(* std::istream extraction *)

RECURSIVE SkipWs(_, _)
SkipWs(f, i) ==
  IF i <= Len(f) /\ f[i] \in Whitespace THEN SkipWs(f, i + 1) ELSE i

RECURSIVE ScanDigits(_, _)
ScanDigits(f, i) ==
  IF i <= Len(f) /\ IsDigit(f[i]) THEN ScanDigits(f, i + 1) ELSE i

\* Value of the digits f[i..j-1].
RECURSIVE DigitsValue(_, _, _)
DigitsValue(f, i, j) ==
  IF j <= i THEN 0 ELSE 10 * DigitsValue(f, i, j - 1) + DigitVal(f[j - 1])

good(s) == ~s.eof /\ ~s.fail

\* operator>> for int (real = FALSE) or double (real = TRUE).  The sentry
\* fails on a stream that is not good and sets failbit without touching the
\* target; it skips whitespace and fails with eofbit at the end of the file.
\* num_get then takes an optional sign, digits and (for a double) a point
\* and more digits; it sets eofbit when it runs into the end of the file
\* while doing so, and stores 0 and sets failbit when it found no digit.
Extract(f, s, real, old) ==
  IF ~good(s) THEN [stream |-> [s EXCEPT !.fail = TRUE], value |-> old]
  ELSE
    LET p0 == SkipWs(f, s.pos) IN
    IF p0 > Len(f)
    THEN [stream |-> [pos |-> p0, eof |-> TRUE, fail |-> TRUE], value |-> old]
    ELSE
      LET neg == f[p0] = "-"
          p1 == IF neg THEN p0 + 1 ELSE p0
          p2 == ScanDigits(f, p1)
          point == real /\ p2 <= Len(f) /\ f[p2] = "."
          p3 == IF point THEN p2 + 1 ELSE p2
          p4 == ScanDigits(f, p3)
          digits == (p2 - p1) + (p4 - p3)
          scale == Pow10(p4 - p3)
          mag == DigitsValue(f, p1, p2) * scale + DigitsValue(f, p3, p4)
          val == Frac(IF neg THEN -mag ELSE mag, scale)
      IN [stream |-> [pos |-> p4, eof |-> p4 > Len(f), fail |-> digits = 0],
          value |-> IF digits = 0 THEN Zero ELSE val]

\* k extractions in a row into a vector; what a failed sentry leaves
\* untouched stays uninitialised.
Uninit == NaN
RECURSIVE ReadValues(_, _, _, _, _)
ReadValues(f, s, real, k, vals) ==
  IF k = 0 THEN [stream |-> s, values |-> vals]
  ELSE LET r == Extract(f, s, real, Uninit)
       IN ReadValues(f, r.stream, real, k - 1, Append(vals, r.value))

----------------------------------------------------------------------------
(* Construction *)

\* 2x2 matrices are pairs of rows.
MatVec2(m, v) ==
  << RAdd(RMul(m[1][1], v[1]), RMul(m[1][2], v[2])),
     RAdd(RMul(m[2][1], v[1]), RMul(m[2][2], v[2])) >>

MatMul2(a, b) ==
  << << RAdd(RMul(a[1][1], b[1][1]), RMul(a[1][2], b[2][1])),
        RAdd(RMul(a[1][1], b[1][2]), RMul(a[1][2], b[2][2])) >>,
     << RAdd(RMul(a[2][1], b[1][1]), RMul(a[2][2], b[2][1])),
        RAdd(RMul(a[2][1], b[1][2]), RMul(a[2][2], b[2][2])) >> >>

Identity2 == << <<One, Zero>>, <<Zero, One>> >>

Det2(m) == RSub(RMul(m[1][1], m[2][2]), RMul(m[2][1], m[1][2]))

\* An inverse whose off-diagonal entries kept their sign.
UnsignedAdjugate(m) ==
  LET invdet == RDiv(One, Det2(m))
  IN << << RMul(m[2][2], invdet), RMul(m[1][2], invdet) >>,
        << RMul(m[2][1], invdet), RMul(m[1][1], invdet) >> >>

\* Eigen's Matrix2d::inverse(): the adjugate times 1/determinant, with no
\* check of the determinant.
Inverse2(m) ==
  LET invdet == RDiv(One, Det2(m))
  IN << << RMul(m[2][2], invdet), RMul(RNeg(m[1][2]), invdet) >>,
        << RMul(RNeg(m[2][1]), invdet), RMul(m[1][1], invdet) >> >>

\* The comma initialiser read column by column.
TransposedAffineCorrection(distortion) ==
  << <<One, distortion[2]>>, <<distortion[3], distortion[1]>> >>

\* The comma initialiser fills the matrix row by row.
distortionToAffineCorrection(distortion) ==
  << <<One, distortion[3]>>, <<distortion[2], distortion[1]>> >>

\* OCam::OCam: the members in the order of the initialiser list.
OCam(image_size, polynomial, principal_point, distortion, inverse_polynomial) ==
  LET affine_correction == distortionToAffineCorrection(distortion)
  IN [image_size_ |-> image_size,
      polynomial_ |-> polynomial,
      principal_point_ |-> principal_point,
      inverse_polynomial_ |-> inverse_polynomial,
      affine_correction_ |-> affine_correction,
      affine_correction_inverse_ |-> Inverse2(affine_correction)]

\* No OCam constructed (yet).
NoOCam ==
  [image_size_ |-> <<>>, polynomial_ |-> <<>>, principal_point_ |-> <<>>,
   inverse_polynomial_ |-> <<>>, affine_correction_ |-> <<>>,
   affine_correction_inverse_ |-> <<>>]

----------------------------------------------------------------------------
(* OCam::loadOCam *)

Threads == {1, 2}

UninitVec(k) == [i \in 1..k |-> Uninit]

NoArg == [op |-> "none", keypoint |-> <<>>, point_3d |-> <<>>,
          want_jacobian |-> FALSE]
NoLoc == [rectified |-> <<>>, rho |-> <<>>, x |-> <<>>, y |-> <<>>, z |-> <<>>,
          xy_norm2 |-> <<>>, xy_norm |-> <<>>, z_by_xy_norm |-> <<>>,
          theta |-> <<>>, theta_powers |-> <<>>, raw_uv |-> <<>>,
          drho_dtheta |-> <<>>, xyz_norm_sqr |-> <<>>, dtheta_dx |-> <<>>,
          dtheta_dy |-> <<>>, dtheta_dz |-> <<>>]
NoOut == [keypoint |-> <<>>, jacobian |-> <<>>, bearing_vector |-> <<>>,
          returned |-> <<>>, printed |-> <<>>]

Init ==
  /\ shape \in {sh \in Shapes : ValidShape(sh)}
  /\ file = WriteFile(shape)
  /\ can_open \in BOOLEAN
  /\ eigen_guarded \in BOOLEAN
  /\ pc = "open"
  /\ stream = [pos |-> 1, eof |-> FALSE, fail |-> FALSE]
  /\ locals = [image_size |-> UninitVec(2),
               polynomial |-> UninitVec(kPolynomialSize),
               principal_point |-> UninitVec(2),
               distortion |-> UninitVec(3),
               inverse_polynomial |-> UninitVec(kInversePolynomialOrder)]
  /\ log = <<>>
  /\ result = "none"
  /\ ocam = NoOCam
  /\ tpc = [t \in Threads |-> "idle"]
  /\ targ = [t \in Threads |-> NoArg]
  /\ tloc = [t \in Threads |-> NoLoc]
  /\ tout = [t \in Threads |-> NoOut]

\* CHECK(param_fs.good()) << message: logs and aborts the process when the
\* stream is not good, and lets the load go on to `next` when it is.
CheckGood(s, message, next) ==
  IF good(s)
  THEN /\ pc' = next
       /\ log' = log
  ELSE /\ pc' = "aborted"
       /\ log' = Append(log, message)

\* One group: k extractions into the local vector `name`, then the CHECK.
ReadGroup(at, name, real, k, message, next) ==
  /\ pc = at
  /\ LET r == ReadValues(file, stream, real, k, <<>>)
     IN /\ stream' = r.stream
        /\ locals' = [locals EXCEPT ![name] = r.values]
        /\ CheckGood(r.stream, message, next)
  /\ UNCHANGED <<result, ocam>>
  /\ UNCHANGED fileVars
  /\ UNCHANGED threadVars

\* An open failure that is logged but not returned from.
OpenAndReadOn ==
  /\ pc = "open"
  /\ pc' = "image_size"
  /\ log' = IF can_open THEN log ELSE Append(log, "Fail to open file")
  /\ UNCHANGED <<stream, locals, ocam, result>>
  /\ UNCHANGED fileVars
  /\ UNCHANGED threadVars

Open ==
  /\ pc = "open"
  /\ IF can_open
     THEN /\ pc' = "image_size"
          /\ UNCHANGED <<log, result>>
     ELSE /\ pc' = "returned"
          /\ log' = Append(log, "Fail to open file")
          /\ result' = "null"
  /\ UNCHANGED <<stream, locals, ocam>>
  /\ UNCHANGED fileVars
  /\ UNCHANGED threadVars

ReadImageSize ==
  ReadGroup("image_size", "image_size", FALSE, 2,
            "Reading image size fails.", "polynomial")

ReadPolynomial ==
  ReadGroup("polynomial", "polynomial", TRUE, kPolynomialSize,
            "Reading polynomial fails.", "principal_point")

ReadPrincipalPoint ==
  ReadGroup("principal_point", "principal_point", TRUE, 2,
            "Reading principle point fails.", "distortion")

ReadDistortion ==
  ReadGroup("distortion", "distortion", TRUE, 3,
            "Reading distortion fails.", "inverse_polynomial")

ReadInversePolynomial ==
  ReadGroup("inverse_polynomial", "inverse_polynomial", TRUE,
            kInversePolynomialOrder,
            "Reading inverse polynomial fails.", "construct")

Construct ==
  /\ pc = "construct"
  /\ ocam' = OCam(locals.image_size, locals.polynomial, locals.principal_point,
                  locals.distortion, locals.inverse_polynomial)
  /\ result' = "ptr"
  /\ pc' = "returned"
  /\ UNCHANGED <<stream, locals, log>>
  /\ UNCHANGED fileVars
  /\ UNCHANGED threadVars

Load ==
  \/ Open
  \/ ReadImageSize
  \/ ReadPolynomial
  \/ ReadPrincipalPoint
  \/ ReadDistortion
  \/ ReadInversePolynomial
  \/ Construct

----------------------------------------------------------------------------
(* Operations on the loaded camera.  Each thread calls them through the     *)
(* shared pointer loadOCam returned, with its own out parameters.           *)

Loaded == pc = "returned" /\ result = "ptr"

\* v(i) of an Eigen vector, indices from 0.
At(v, i) == v[i + 1]

Dot3(a, b) == RAdd(RAdd(RMul(a[1], b[1]), RMul(a[2], b[2])), RMul(a[3], b[3]))

\* Eigen's norm() of a 2-vector.
Norm2(v) == Sqrt(RAdd(Sqr(v[1]), Sqr(v[2])))

\* Eigen's normalize().  Eigen 3.3 divides only when the squared norm is
\* positive (guarded), Eigen 3.2 always divides.
Normalized(v, guarded) ==
  LET z == Dot3(v, v)
      n == Sqrt(z)
  IN IF guarded /\ ~(z[1] > 0) THEN v
     ELSE <<RDiv(v[1], n), RDiv(v[2], n), RDiv(v[3], n)>>

\* The 3D points and keypoints the callers pass.
Points ==
  { <<FromInt(xy[1]), FromInt(xy[2]), FromInt(z)>> :
      xy \in {<<3, 4>>, <<4, 0>>}, z \in 1..MaxDepth }
  \cup { <<Zero, Zero, FromInt(-1)>> }
Keypoints ==
  { <<FromInt(320 + u), FromInt(240 + (MaxPixel - u))>> : u \in 0..MaxPixel }

\* A thread enters an operation: its arguments are bound, its locals and
\* outputs hold nothing yet.
Enter(t, op, at, keypoint, point_3d, want_jacobian) ==
  /\ Loaded
  /\ tpc' = [tpc EXCEPT ![t] = at]
  /\ targ' = [targ EXCEPT ![t] = [op |-> op, keypoint |-> keypoint,
                                   point_3d |-> point_3d,
                                   want_jacobian |-> want_jacobian]]
  /\ tloc' = [tloc EXCEPT ![t] = NoLoc]
  /\ tout' = [tout EXCEPT ![t] = NoOut]
  /\ UNCHANGED loadVars
  /\ UNCHANGED fileVars

\* The caller takes the results; the operation's frame is gone.
Return(t) ==
  /\ tpc[t] = "done"
  /\ tpc' = [tpc EXCEPT ![t] = "idle"]
  /\ targ' = [targ EXCEPT ![t] = NoArg]
  /\ tloc' = [tloc EXCEPT ![t] = NoLoc]
  /\ tout' = [tout EXCEPT ![t] = NoOut]
  /\ UNCHANGED loadVars
  /\ UNCHANGED fileVars

(* backProject3 *)

\* Position before the Horner step that uses polynomial_(i).
HornerPc == <<"bp_horner0", "bp_horner1", "bp_horner2", "bp_horner3", "bp_horner4">>
AfterHorner(i) == IF i = 0 THEN "bp_negate" ELSE At(HornerPc, i - 1)

\* affine_correction_inverse_ * (keypoint - principal_point_)
Rectified(cam, keypoint) ==
  MatVec2(cam.affine_correction_inverse_,
          <<RSub(keypoint[1], cam.principal_point_[1]),
            RSub(keypoint[2], cam.principal_point_[2])>>)

\* A Horner step that takes the coefficients lowest first.
HornerValueReversed(cam, i, acc, rho) ==
  IF i = kPolynomialSize - 1 THEN At(cam.polynomial_, 0)
  ELSE RAdd(At(cam.polynomial_, (kPolynomialSize - 1) - i), RMul(acc, rho))

\* out_bearing_vector(2) after the Horner step with polynomial_(i): the
\* first step takes polynomial_(4) alone.
HornerValue(cam, i, acc, rho) ==
  IF i = kPolynomialSize - 1 THEN At(cam.polynomial_, i)
  ELSE RAdd(At(cam.polynomial_, i), RMul(acc, rho))

\* A sign that is left as the polynomial gave it.
NotNegated(z) == RMul(One, z)

\* (-1.0) * out_bearing_vector(2)
Negated(z) == RMul(RNeg(One), z)

CallBackProject3(t, keypoint) ==
  /\ tpc[t] = "idle"
  /\ Enter(t, "backProject3", "bp_rectify", keypoint, <<>>, FALSE)

\* The caller hands the keypoint project3 gave it to backProject3, keeping
\* the 3D point it projected.
CallBackProject3OfProjection(t) ==
  /\ tpc[t] = "done"
  /\ targ[t].op = "project3"
  /\ ~targ[t].want_jacobian
  /\ Enter(t, "backProject3", "bp_rectify", tout[t].keypoint,
           targ[t].point_3d, FALSE)

\* backProject3 up to the assignment of the head of the bearing vector; its
\* third entry still holds what the caller left there.
BackProject3Rectify(t) ==
  /\ tpc[t] = "bp_rectify"
  /\ LET rectified == Rectified(ocam, targ[t].keypoint)
         rho == Norm2(rectified)
     IN /\ tloc' = [tloc EXCEPT ![t].rectified = rectified, ![t].rho = rho]
        /\ tout' = [tout EXCEPT ![t].bearing_vector =
                      <<rectified[1], rectified[2], Uninit>>]
  /\ tpc' = [tpc EXCEPT ![t] = At(HornerPc, kPolynomialSize - 1)]
  /\ UNCHANGED targ
  /\ UNCHANGED loadVars
  /\ UNCHANGED fileVars

BackProject3Horner(t, i) ==
  /\ tpc[t] = At(HornerPc, i)
  /\ tout' = [tout EXCEPT ![t].bearing_vector[3] =
                 HornerValue(ocam, i, tout[t].bearing_vector[3], tloc[t].rho)]
  /\ tpc' = [tpc EXCEPT ![t] = AfterHorner(i)]
  /\ UNCHANGED <<targ, tloc>>
  /\ UNCHANGED loadVars
  /\ UNCHANGED fileVars

\* A negation that also writes the flipped sign back into the model.
NegateAndStoreBack(t) ==
  /\ tpc[t] = "bp_negate"
  /\ tout' = [tout EXCEPT ![t].bearing_vector[3] =
                 Negated(tout[t].bearing_vector[3])]
  /\ ocam' = [ocam EXCEPT !.polynomial_ =
                 [i \in 1..kPolynomialSize |-> Negated(ocam.polynomial_[i])]]
  /\ tpc' = [tpc EXCEPT ![t] = "bp_normalize"]
  /\ UNCHANGED <<targ, tloc>>
  /\ UNCHANGED <<pc, stream, locals, log, result>>
  /\ UNCHANGED fileVars

BackProject3Negate(t) ==
  /\ tpc[t] = "bp_negate"
  /\ tout' = [tout EXCEPT ![t].bearing_vector[3] =
                 Negated(tout[t].bearing_vector[3])]
  /\ tpc' = [tpc EXCEPT ![t] = "bp_normalize"]
  /\ UNCHANGED <<targ, tloc>>
  /\ UNCHANGED loadVars
  /\ UNCHANGED fileVars

BackProject3Normalize(t) ==
  /\ tpc[t] = "bp_normalize"
  /\ tout' = [tout EXCEPT ![t].bearing_vector =
                 Normalized(tout[t].bearing_vector, eigen_guarded)]
  /\ tpc' = [tpc EXCEPT ![t] = "done"]
  /\ UNCHANGED <<targ, tloc>>
  /\ UNCHANGED loadVars
  /\ UNCHANGED fileVars

\* The Horner steps from polynomial_(4) down to polynomial_(i).
RECURSIVE HornerFrom(_, _, _)
HornerFrom(cam, i, rho) ==
  IF i = kPolynomialSize - 1 THEN HornerValue(cam, i, Uninit, rho)
  ELSE HornerValue(cam, i, HornerFrom(cam, i + 1, rho), rho)

\* What backProject3 leaves in *out_bearing_vector.
backProject3(cam, keypoint, guarded) ==
  LET rectified == Rectified(cam, keypoint)
      rho == Norm2(rectified)
  IN Normalized(<<rectified[1], rectified[2], Negated(HornerFrom(cam, 0, rho))>>,
                guarded)

(* project3 *)

\* theta_powers[0..n-1]
RECURSIVE ThetaPowers(_, _)
ThetaPowers(theta, n) ==
  IF n = 1 THEN <<One>>
  ELSE LET prev == ThetaPowers(theta, n - 1)
       IN Append(prev, RMul(prev[n - 1], theta))

\* a.dot(b) over the first n entries
RECURSIVE Dot(_, _, _)
Dot(a, b, n) ==
  IF n = 0 THEN Zero ELSE RAdd(Dot(a, b, n - 1), RMul(a[n], b[n]))

\* sum over i = 1..n of i * inverse_polynomial_[i] * theta_powers[i-1]
RECURSIVE DrhoDtheta(_, _, _)
DrhoDtheta(inverse_polynomial, theta_powers, n) ==
  IF n = 0 THEN Zero
  ELSE RAdd(DrhoDtheta(inverse_polynomial, theta_powers, n - 1),
            RMul(RMul(FromInt(n), At(inverse_polynomial, n)),
                 At(theta_powers, n - 1)))

\* The locals of project3 up to raw_uv.
Project3Locals(cam, point_3d) ==
  LET x == point_3d[1]
      y == point_3d[2]
      z == RNeg(point_3d[3])
      xy_norm2 == RAdd(Sqr(x), Sqr(y))
      xy_norm == Sqrt(xy_norm2)
      z_by_xy_norm == RDiv(z, xy_norm)
      theta == Atan(z_by_xy_norm)
      theta_powers == ThetaPowers(theta, kInversePolynomialOrder)
      rho == Dot(cam.inverse_polynomial_, theta_powers, kInversePolynomialOrder)
      raw_uv == <<RMul(RDiv(x, xy_norm), rho), RMul(RDiv(y, xy_norm), rho)>>
  IN [NoLoc EXCEPT !.x = x, !.y = y, !.z = z, !.xy_norm2 = xy_norm2,
                   !.xy_norm = xy_norm, !.z_by_xy_norm = z_by_xy_norm,
                   !.theta = theta, !.theta_powers = theta_powers,
                   !.rho = rho, !.raw_uv = raw_uv]

\* A keypoint clipped to the image.
ClampTo(v, hi) == IF RLess(v, Zero) THEN Zero ELSE IF RLess(hi, v) THEN hi ELSE v
KeypointClampedToImage(cam, raw_uv) ==
  LET uv == MatVec2(cam.affine_correction_, raw_uv)
  IN <<ClampTo(RAdd(uv[1], cam.principal_point_[1]),
               RSub(cam.image_size_[1], One)),
       ClampTo(RAdd(uv[2], cam.principal_point_[2]),
               RSub(cam.image_size_[2], One))>>

\* affine_correction_ * raw_uv + principal_point_
KeypointOf(cam, raw_uv) ==
  LET uv == MatVec2(cam.affine_correction_, raw_uv)
  IN <<RAdd(uv[1], cam.principal_point_[1]), RAdd(uv[2], cam.principal_point_[2])>>

\* dtheta/dx without the division of z by xy_norm.
DthetaDxUnscaled(l, xyz_norm_sqr) ==
  RDiv(RMul(RMul(RNeg(One), l.x), l.z), xyz_norm_sqr)

\* theta w.r.t x y z
DthetaDx(l, xyz_norm_sqr) ==
  RDiv(RMul(RMul(RNeg(One), l.x), l.z_by_xy_norm), xyz_norm_sqr)
DthetaDy(l, xyz_norm_sqr) ==
  RDiv(RMul(RMul(RNeg(One), l.y), l.z_by_xy_norm), xyz_norm_sqr)
DthetaDz(l, xyz_norm_sqr) == RDiv(l.xy_norm, xyz_norm_sqr)

\* The locals of the Jacobian block, from those of the first part.
JacobianLocals(cam, l) ==
  LET xyz_norm_sqr == RAdd(l.xy_norm2, Sqr(l.z))
  IN [l EXCEPT
        !.drho_dtheta = DrhoDtheta(cam.inverse_polynomial_, l.theta_powers,
                                   kInversePolynomialOrder - 1),
        !.xyz_norm_sqr = xyz_norm_sqr,
        !.dtheta_dx = DthetaDx(l, xyz_norm_sqr),
        !.dtheta_dy = DthetaDy(l, xyz_norm_sqr),
        !.dtheta_dz = DthetaDz(l, xyz_norm_sqr)]

\* The 2x3 Jacobian of raw_uv, rows first, the z column negated.
RawJacobian(l) ==
  LET x == l.x
      y == l.y
      xy_norm == l.xy_norm
      rho == l.rho
      xy_sqr == l.xy_norm2
      drho_dx == RMul(l.drho_dtheta, l.dtheta_dx)
      drho_dy == RMul(l.drho_dtheta, l.dtheta_dy)
      drho_dz == RMul(l.drho_dtheta, l.dtheta_dz)
      mxy == RDiv(RMul(RMul(RNeg(One), x), y), xy_norm)
      duraw_dx == RAdd(RMul(RDiv(RSub(xy_norm, RDiv(RMul(x, x), xy_norm)), xy_sqr), rho),
                       RDiv(RMul(drho_dx, x), xy_norm))
      duraw_dy == RAdd(RMul(RDiv(mxy, xy_sqr), rho), RDiv(RMul(drho_dy, x), xy_norm))
      duraw_dz == RDiv(RMul(drho_dz, x), xy_norm)
      dvraw_dx == RAdd(RMul(RDiv(mxy, xy_sqr), rho), RDiv(RMul(drho_dx, y), xy_norm))
      dvraw_dy == RAdd(RMul(RDiv(RSub(xy_norm, RDiv(RMul(y, y), xy_norm)), xy_sqr), rho),
                       RDiv(RMul(drho_dy, y), xy_norm))
      dvraw_dz == RDiv(RMul(drho_dz, y), xy_norm)
  IN << <<duraw_dx, duraw_dy, RNeg(duraw_dz)>>,
        <<dvraw_dx, dvraw_dy, RNeg(dvraw_dz)>> >>

\* affine_correction_ * J for a 2x3 matrix J
MatMul23(m, j) ==
  << <<RAdd(RMul(m[1][1], j[1][1]), RMul(m[1][2], j[2][1])),
       RAdd(RMul(m[1][1], j[1][2]), RMul(m[1][2], j[2][2])),
       RAdd(RMul(m[1][1], j[1][3]), RMul(m[1][2], j[2][3]))>>,
     <<RAdd(RMul(m[2][1], j[1][1]), RMul(m[2][2], j[2][1])),
       RAdd(RMul(m[2][1], j[1][2]), RMul(m[2][2], j[2][2])),
       RAdd(RMul(m[2][1], j[1][3]), RMul(m[2][2], j[2][3]))>> >>

JacobianOf(cam, l) == MatMul23(cam.affine_correction_, RawJacobian(l))

CallProject3(t, point_3d, want_jacobian) ==
  /\ tpc[t] = "idle"
  /\ Enter(t, "project3", "pj_keypoint", <<>>, point_3d, want_jacobian)

\* project3 up to the assignment of the keypoint.
Project3Keypoint(t) ==
  /\ tpc[t] = "pj_keypoint"
  /\ LET l == Project3Locals(ocam, targ[t].point_3d)
     IN /\ tloc' = [tloc EXCEPT ![t] = l]
        /\ tout' = [tout EXCEPT ![t].keypoint = KeypointOf(ocam, l.raw_uv)]
  /\ tpc' = [tpc EXCEPT ![t] =
               IF targ[t].want_jacobian THEN "pj_jacobian" ELSE "done"]
  /\ UNCHANGED targ
  /\ UNCHANGED loadVars
  /\ UNCHANGED fileVars

\* The block under if(out_jacobian_point).
Project3Jacobian(t) ==
  /\ tpc[t] = "pj_jacobian"
  /\ LET l == JacobianLocals(ocam, tloc[t])
     IN /\ tloc' = [tloc EXCEPT ![t] = l]
        /\ tout' = [tout EXCEPT ![t].jacobian = JacobianOf(ocam, l)]
  /\ tpc' = [tpc EXCEPT ![t] = "done"]
  /\ UNCHANGED targ
  /\ UNCHANGED loadVars
  /\ UNCHANGED fileVars

\* What project3 leaves in *out_keypoint and *out_jacobian_point.
project3(cam, point_3d, want_jacobian) ==
  LET l == Project3Locals(cam, point_3d)
  IN [keypoint |-> KeypointOf(cam, l.raw_uv),
      jacobian |-> IF want_jacobian THEN JacobianOf(cam, JacobianLocals(cam, l))
                   ELSE <<>>]

(* accessors and print *)

getIntrinsicParameters(cam) ==
  [idx \in 1..(kPolynomialSize + 2) |->
     IF idx <= kPolynomialSize THEN cam.polynomial_[idx]
     ELSE cam.principal_point_[idx - kPolynomialSize]]

getDistortionParameters(cam) ==
  << cam.affine_correction_[1][1], cam.affine_correction_[1][2],
     cam.affine_correction_[2][1], cam.affine_correction_[2][2] >>

print(cam) ==
  << <<"Projection", "Omni">>,
     <<"Image size", cam.image_size_>>,
     <<"Polynomial", cam.polynomial_>>,
     <<"Principal point", cam.principal_point_>>,
     <<"Inverse polynomial", cam.inverse_polynomial_>>,
     <<"Affine correction", cam.affine_correction_>>,
     <<"Affine correction inverse", cam.affine_correction_inverse_>> >>

\* A call of one of the accessors or of print: `field` of the thread's
\* output receives `value`.
Returns(t, op, field, value) ==
  /\ Loaded
  /\ tpc[t] = "idle"
  /\ targ' = [targ EXCEPT ![t] = [NoArg EXCEPT !.op = op]]
  /\ tloc' = [tloc EXCEPT ![t] = NoLoc]
  /\ tout' = [tout EXCEPT ![t] = [NoOut EXCEPT ![field] = value]]
  /\ tpc' = [tpc EXCEPT ![t] = "done"]
  /\ UNCHANGED loadVars
  /\ UNCHANGED fileVars

GetIntrinsicParameters(t) ==
  Returns(t, "getIntrinsicParameters", "returned", getIntrinsicParameters(ocam))

GetDistortionParameters(t) ==
  Returns(t, "getDistortionParameters", "returned", getDistortionParameters(ocam))

CallPrint(t) == Returns(t, "print", "printed", print(ocam))

Call(t) ==
  \/ \E keypoint \in Keypoints : CallBackProject3(t, keypoint)
  \/ BackProject3Rectify(t)
  \/ \E i \in 0..(kPolynomialSize - 1) : BackProject3Horner(t, i)
  \/ BackProject3Negate(t)
  \/ BackProject3Normalize(t)
  \/ \E point_3d \in Points, want_jacobian \in BOOLEAN :
       CallProject3(t, point_3d, want_jacobian)
  \/ Project3Keypoint(t)
  \/ Project3Jacobian(t)
  \/ GetIntrinsicParameters(t)
  \/ GetDistortionParameters(t)
  \/ CallPrint(t)
  \/ Return(t)

Next == Load \/ \E t \in Threads : Call(t)

Spec == Init /\ [][Next]_vars

\* One caller.
NextOneCaller == Load \/ Call(1)

SpecOneCaller == Init /\ [][NextOneCaller]_vars

\* One caller that also feeds project3's keypoints back to backProject3.
NextRoundTrip == Load \/ Call(1) \/ CallBackProject3OfProjection(1)

SpecRoundTrip == Init /\ [][NextRoundTrip]_vars

----------------------------------------------------------------------------
(* Properties of loadOCam *)

\* The tokens the file was written from and the values they denote.
Tokens == ParamSets[shape.params]
TokenValues(from, to) == [i \in 1..(to - from + 1) |-> TokenValue(Tokens[from + i - 1])]

\* The diagnostics of the five CHECKs, in file order.
GroupMessage ==
  << "Reading image size fails.", "Reading polynomial fails.",
     "Reading principle point fails.", "Reading distortion fails.",
     "Reading inverse polynomial fails." >>

\* The file is truncated or holds a token that is not a number.
Malformed(sh) == sh.kept < NumTokens \/ sh.bad # 0

\* Index of the first extraction that fails: the one after the last token
\* of a truncated file, the one that meets a token with no digit in front,
\* or the one after a number with a letter glued to it.
FirstFailingRead(sh) ==
  IF sh.kept < NumTokens THEN sh.kept + 1
  ELSE IF sh.badkind = "none" THEN sh.bad
  ELSE sh.bad + 1

\* C1: for every readable file made of exactly the 24 well-formed tokens,
\* whatever follows the last token, loadOCam never aborts the process and
\* never returns an absent result: when it returns, it returns a camera.
C1_WellFormedFileLoads ==
  (can_open /\ WellFormed(shape)) =>
     /\ pc # "aborted"
     /\ result # "null"
     /\ pc = "returned" => result = "ptr"

\* C2: after a successful load, getIntrinsicParameters() returns the tokens
\* p0 p1 p2 p3 p4 cx cy and getDistortionParameters() returns 1, d2, d1, d0;
\* every field of the model holds the tokens of its own group in their order.
C2_AccessorsReturnTokens ==
  /\ \A t \in Threads :
       (tpc[t] = "done" /\ targ[t].op = "getIntrinsicParameters") =>
          tout[t].returned = TokenValues(3, 4 + kPolynomialSize)
  /\ \A t \in Threads :
       (tpc[t] = "done" /\ targ[t].op = "getDistortionParameters") =>
          tout[t].returned =
            << One, TokenValue(Tokens[7 + kPolynomialSize]),
               TokenValue(Tokens[6 + kPolynomialSize]),
               TokenValue(Tokens[5 + kPolynomialSize]) >>
  /\ (Loaded /\ WellFormed(shape)) =>
        /\ ocam.image_size_ = TokenValues(1, 2)
        /\ ocam.polynomial_ = TokenValues(3, 2 + kPolynomialSize)
        /\ ocam.principal_point_ = TokenValues(3 + kPolynomialSize, 4 + kPolynomialSize)
        /\ ocam.inverse_polynomial_ = TokenValues(8 + kPolynomialSize, NumTokens)

\* getDistortionParameters has returned on a model whose tokens all differ.
C2_Witness ==
  /\ shape.params = 2
  /\ WellFormed(shape)
  /\ tpc[1] = "done" /\ targ[1].op = "getDistortionParameters"

\* C3: when the file cannot be opened, loadOCam logs an error and returns a
\* null pointer; it does not abort, reads no token and constructs no model.
C3_OpenFailureReturnsNull ==
  (~can_open /\ pc # "open") =>
     /\ pc = "returned"
     /\ result = "null"
     /\ log = <<"Fail to open file">>
     /\ stream = [pos |-> 1, eof |-> FALSE, fail |-> FALSE]
     /\ locals.image_size = UninitVec(2)
     /\ locals.polynomial = UninitVec(kPolynomialSize)
     /\ locals.inverse_polynomial = UninitVec(kInversePolynomialOrder)
     /\ ocam = NoOCam
     /\ \A t \in Threads : tpc[t] = "idle"

\* loadOCam has returned from a file that cannot be opened.
C3_Witness == ~can_open /\ pc = "returned" /\ Len(file) > 0

\* C4: when an opened file is truncated or holds a token that is not a
\* number, loadOCam aborts and never returns or constructs a model, and the
\* diagnostic is that of the first group in which a read failed.
C4_MalformedFileAborts ==
  (can_open /\ Malformed(shape)) =>
     /\ pc \notin {"construct", "returned"}
     /\ result = "none"
     /\ ocam = NoOCam
     /\ pc = "aborted" =>
          /\ FirstFailingRead(shape) <= NumTokens
          /\ log = <<GroupMessage[GroupOf(FirstFailingRead(shape))]>>

----------------------------------------------------------------------------
(* Properties of the loaded camera *)

\* The model as the constructor built it from what loadOCam read.
Constructed ==
  OCam(locals.image_size, locals.polynomial, locals.principal_point,
       locals.distortion, locals.inverse_polynomial)

\* What a call leaves in its outputs, from the model and the call's input.
ResultOf(cam, arg, guarded) ==
  CASE arg.op = "backProject3" ->
         [NoOut EXCEPT !.bearing_vector = backProject3(cam, arg.keypoint, guarded)]
    [] arg.op = "project3" ->
         LET r == project3(cam, arg.point_3d, arg.want_jacobian)
         IN [NoOut EXCEPT !.keypoint = r.keypoint, !.jacobian = r.jacobian]
    [] arg.op = "getIntrinsicParameters" ->
         [NoOut EXCEPT !.returned = getIntrinsicParameters(cam)]
    [] arg.op = "getDistortionParameters" ->
         [NoOut EXCEPT !.returned = getDistortionParameters(cam)]
    [] arg.op = "print" -> [NoOut EXCEPT !.printed = print(cam)]

\* C5: after any interleaving of project3, backProject3, the accessors and
\* print from several threads, every field of the model equals its value at
\* the end of construction, and what a call returns is determined by the
\* constructed model and the call's own input.
C5_ModelImmutable ==
  Loaded =>
    /\ ocam = Constructed
    /\ \A t \in Threads :
         tpc[t] = "done" => tout[t] = ResultOf(Constructed, targ[t], eigen_guarded)

\* Two threads are inside the model at once, one past backProject3's Horner
\* steps and the other in project3's Jacobian block.
C5_Witness ==
  /\ tpc[1] = "bp_normalize"
  /\ tpc[2] = "pj_jacobian"

\* C6: for a non-singular affine correction [[1, d2], [d1, d0]], in every
\* state after construction affine_correction_ * affine_correction_inverse_
\* is the 2x2 identity.
C6_AffineInverse ==
  (Loaded /\ locals.distortion[1] # RMul(locals.distortion[2], locals.distortion[3])) =>
     /\ ocam.affine_correction_ =
          << <<One, locals.distortion[3]>>,
             <<locals.distortion[2], locals.distortion[1]>> >>
     /\ MatMul2(ocam.affine_correction_, ocam.affine_correction_inverse_) = Identity2

\* A model with a skewed, non-singular affine correction, after a call.
C6_Witness ==
  /\ Loaded
  /\ shape.params = 2
  /\ tpc[1] = "done" /\ targ[1].op = "backProject3"

\* p x b = 0 and p . b > 0
Parallel(p, b) ==
  /\ RSub(RMul(p[2], b[3]), RMul(p[3], b[2])) = Zero
  /\ RSub(RMul(p[3], b[1]), RMul(p[1], b[3])) = Zero
  /\ RSub(RMul(p[1], b[2]), RMul(p[2], b[1])) = Zero
  /\ RLess(Zero, Dot3(p, b))

\* The norm of v is a number the square root returns exactly.
ExactNorm(v) == Sqr(Sqrt(Dot3(v, v))) = Dot3(v, v)

\* p is strictly off the optical axis and has positive depth.
OffAxisInFront(p) ==
  /\ RLess(Zero, RAdd(Sqr(p[1]), Sqr(p[2])))
  /\ RLess(Zero, p[3])

\* backProject3 has returned for the keypoint project3 gave for a 3D point.
RoundTripDone(t) ==
  /\ tpc[t] = "done"
  /\ targ[t].op = "backProject3"
  /\ targ[t].point_3d # <<>>

\* The polynomial and the inverse polynomial agree at p: the radius rho the
\* inverse polynomial gives for p's angle is positive and the polynomial
\* maps it back to the height rho * z' / xy_norm.
ConsistentAt(cam, p) ==
  LET l == Project3Locals(cam, p)
  IN /\ IsFinite(l.rho)
     /\ RLess(Zero, l.rho)
     /\ HornerFrom(cam, 0, l.rho) = RMul(l.rho, l.z_by_xy_norm)

\* C7 as stated: for every off-axis point p of positive depth, backProject3
\* of project3's keypoint is a unit vector parallel to p.
C7_RoundTripAnyModel ==
  \A t \in Threads :
    (RoundTripDone(t) /\ OffAxisInFront(targ[t].point_3d)) =>
       Parallel(targ[t].point_3d, tout[t].bearing_vector)

\* C7 amended: the same, for models whose affine correction is non-singular
\* and whose polynomial and inverse polynomial agree at p; the vector has
\* unit length whenever its norm is computed exactly.
C7_RoundTripConsistentModel ==
  \A t \in Threads :
    (/\ RoundTripDone(t)
     /\ OffAxisInFront(targ[t].point_3d)
     /\ IsFinite(Det2(ocam.affine_correction_))
     /\ Det2(ocam.affine_correction_) # Zero
     /\ ConsistentAt(ocam, targ[t].point_3d)) =>
       /\ Parallel(targ[t].point_3d, tout[t].bearing_vector)
       /\ ExactNorm(targ[t].point_3d) =>
            Dot3(tout[t].bearing_vector, tout[t].bearing_vector) = One

\* A round trip through a consistent model with a skewed affine correction.
C7_Witness ==
  /\ RoundTripDone(1)
  /\ OffAxisInFront(targ[1].point_3d)
  /\ Det2(ocam.affine_correction_) # Zero
  /\ ocam.affine_correction_ # Identity2
  /\ ConsistentAt(ocam, targ[1].point_3d)

\* The image sizes of the models compared with the loaded one.
OtherSizes == { <<FromInt(1), FromInt(1)>>, <<FromInt(1280), FromInt(960)>> }

\* C8: a model that differs from the loaded one only in its image size
\* returns the same keypoint, Jacobian and bearing vector for every input
\* and the same values from both accessors.
C8_ImageSizeUnused ==
  \A t \in Threads : \A size \in OtherSizes :
    (tpc[t] = "done" /\ targ[t].op # "print") =>
       tout[t] = ResultOf([ocam EXCEPT !.image_size_ = size], targ[t], eigen_guarded)

\* project3 has returned a keypoint and a Jacobian that are numbers.
C8_Witness ==
  /\ shape.params = 3
  /\ tpc[1] = "done" /\ targ[1].op = "project3" /\ targ[1].want_jacobian
  /\ \A i \in 1..2 : IsFinite(tout[1].keypoint[i])
  /\ \A i \in 1..2 : \A j \in 1..3 : IsFinite(tout[1].jacobian[i][j])
  /\ \A size \in OtherSizes : size # ocam.image_size_

\* project3 has computed its Jacobian for a point off the optical axis.
JacobianDone(t) ==
  /\ tpc[t] = "done"
  /\ targ[t].op = "project3"
  /\ targ[t].want_jacobian
  /\ RLess(Zero, tloc[t].xy_norm)

\* x^2 + y^2 + z'^2 of the thread's input point
XyzNormSqr(t) == Dot3(targ[t].point_3d, targ[t].point_3d)

\* C9 as stated: dtheta/dx = -x*z'/xyzNormSqr, dtheta/dy = -y*z'/xyzNormSqr
\* and dtheta/dz' = xyNorm/xyzNormSqr with z' = -z, whenever xyNorm > 0.
C9_ThetaDerivativesUnscaled ==
  \A t \in Threads :
    JacobianDone(t) =>
      LET x == targ[t].point_3d[1]
          y == targ[t].point_3d[2]
          zp == RNeg(targ[t].point_3d[3])
      IN /\ tloc[t].dtheta_dx = RDiv(RNeg(RMul(x, zp)), XyzNormSqr(t))
         /\ tloc[t].dtheta_dy = RDiv(RNeg(RMul(y, zp)), XyzNormSqr(t))
         /\ tloc[t].dtheta_dz = RDiv(tloc[t].xy_norm, XyzNormSqr(t))

\* C9 amended: dtheta/dx = -x*z'/(xyNorm*xyzNormSqr), dtheta/dy =
\* -y*z'/(xyNorm*xyzNormSqr) and dtheta/dz' = xyNorm/xyzNormSqr with z' = -z,
\* whenever xyNorm > 0.
C9_ThetaDerivatives ==
  \A t \in Threads :
    JacobianDone(t) =>
      LET x == targ[t].point_3d[1]
          y == targ[t].point_3d[2]
          zp == RNeg(targ[t].point_3d[3])
          xyNorm == Sqrt(RAdd(Sqr(x), Sqr(y)))
      IN /\ tloc[t].dtheta_dx = RDiv(RNeg(RMul(x, zp)), RMul(xyNorm, XyzNormSqr(t)))
         /\ tloc[t].dtheta_dy = RDiv(RNeg(RMul(y, zp)), RMul(xyNorm, XyzNormSqr(t)))
         /\ tloc[t].dtheta_dz = RDiv(xyNorm, XyzNormSqr(t))

\* The Jacobian block has run for a point with x, y and z all non-zero.
C9_Witness ==
  /\ JacobianDone(1)
  /\ targ[1].point_3d[1] # Zero
  /\ targ[1].point_3d[2] # Zero
  /\ targ[1].point_3d[3] # Zero

\* rho^n
RECURSIVE RPow(_, _)
RPow(a, n) == IF n = 0 THEN One ELSE RMul(a, RPow(a, n - 1))

\* C10: before normalisation the bearing vector is (rectified, z) with
\* rectified = affine_correction_inverse_ * (keypoint - principal_point_),
\* rho = ||rectified|| and
\* z = -(poly[0] + poly[1]*rho + poly[2]*rho^2 + poly[3]*rho^3 + poly[4]*rho^4).
C10_VectorBeforeNormalisation ==
  \A t \in Threads :
    tpc[t] = "bp_normalize" =>
      LET d == <<RSub(targ[t].keypoint[1], ocam.principal_point_[1]),
                 RSub(targ[t].keypoint[2], ocam.principal_point_[2])>>
          rectified == MatVec2(ocam.affine_correction_inverse_, d)
          rho == Sqrt(RAdd(RMul(rectified[1], rectified[1]),
                           RMul(rectified[2], rectified[2])))
          poly == ocam.polynomial_
          sum == RAdd(RAdd(RAdd(RAdd(poly[1], RMul(poly[2], rho)),
                                     RMul(poly[3], RPow(rho, 2))),
                                RMul(poly[4], RPow(rho, 3))),
                      RMul(poly[5], RPow(rho, 4)))
      IN /\ tout[t].bearing_vector[1] = rectified[1]
         /\ tout[t].bearing_vector[2] = rectified[2]
         /\ tout[t].bearing_vector[3] = RNeg(sum)

\* The vector is assembled for a polynomial with five different non-zero
\* coefficients and a radius that is neither zero nor one.
C10_Witness ==
  /\ tpc[1] = "bp_normalize"
  /\ shape.params = 2
  /\ IsFinite(tloc[1].rho)
  /\ RLess(One, tloc[1].rho)

====
